---------------------------- MODULE Spec2Model ----------------------------
(***************************************************************************)
(* A model of the MGNREGA dashboard backend (src/backend/server.js): the   *)
(* process-wide cache map with its 15 minute expiry, the three read-only   *)
(* endpoints /api/states, /api/districts/:stateCode and                    *)
(* /api/performance/:districtCode, and the arithmetic of the trend and     *)
(* state-average figures, which the server computes on JavaScript numbers  *)
(* (IEEE 754 binary64) and prints with Number.prototype.toFixed.           *)
(***************************************************************************)
EXTENDS Integers, Sequences, FiniteSets, TLC

(***************************************************************************)
(* Unbounded naturals.  TLC's integers are 32 bits wide and a binary64     *)
(* significand has 53, so significands and the exact intermediate results  *)
(* of the arithmetic are kept as little-endian sequences of 15-bit limbs   *)
(* without leading (high) zero limbs; << >> is zero.                       *)
(***************************************************************************)
LimbBits == 15

LimbBase == 32768

RECURSIVE Pow2(_)
Pow2(k) == IF k = 0 THEN 1 ELSE 2 * Pow2(k - 1)

RECURSIVE BigNorm(_)
BigNorm(a) ==
    IF a = << >> THEN << >>
    ELSE IF a[Len(a)] = 0 THEN BigNorm(SubSeq(a, 1, Len(a) - 1))
    ELSE a

RECURSIVE BigFromInt(_)
BigFromInt(n) ==
    IF n = 0 THEN << >>
    ELSE <<n % LimbBase>> \o BigFromInt(n \div LimbBase)

RECURSIVE BigToInt(_)
BigToInt(a) ==
    IF a = << >> THEN 0
    ELSE a[1] + LimbBase * BigToInt(Tail(a))

Limb(a, i) == IF i <= Len(a) THEN a[i] ELSE 0

Max2(x, y) == IF x >= y THEN x ELSE y

RECURSIVE BigCmpFrom(_, _, _)
BigCmpFrom(a, b, i) ==
    IF i = 0 THEN 0
    ELSE IF Limb(a, i) > Limb(b, i) THEN 1
    ELSE IF Limb(a, i) < Limb(b, i) THEN -1
    ELSE BigCmpFrom(a, b, i - 1)

\* -1, 0 or 1 as a < b, a = b or a > b.
BigCmp(a, b) == BigCmpFrom(a, b, Max2(Len(a), Len(b)))

RECURSIVE BigAddFrom(_, _, _, _)
BigAddFrom(a, b, i, carry) ==
    IF i > Max2(Len(a), Len(b))
    THEN IF carry = 0 THEN << >> ELSE <<carry>>
    ELSE LET s == Limb(a, i) + Limb(b, i) + carry
         IN  <<s % LimbBase>> \o BigAddFrom(a, b, i + 1, s \div LimbBase)

BigAdd(a, b) == BigAddFrom(a, b, 1, 0)

RECURSIVE BigSubFrom(_, _, _, _)
BigSubFrom(a, b, i, borrow) ==
    IF i > Len(a) THEN << >>
    ELSE LET d == Limb(a, i) - Limb(b, i) - borrow
         IN  IF d < 0
             THEN <<d + LimbBase>> \o BigSubFrom(a, b, i + 1, 1)
             ELSE <<d>> \o BigSubFrom(a, b, i + 1, 0)

\* a - b for a >= b.
BigSub(a, b) == BigNorm(BigSubFrom(a, b, 1, 0))

RECURSIVE BigMulSmallFrom(_, _, _, _)
BigMulSmallFrom(a, k, i, carry) ==
    IF i > Len(a)
    THEN IF carry = 0 THEN << >> ELSE <<carry>>
    ELSE LET p == a[i] * k + carry
         IN  <<p % LimbBase>> \o BigMulSmallFrom(a, k, i + 1, p \div LimbBase)

\* a * k for 0 <= k < LimbBase.
BigMulSmall(a, k) == IF k = 0 THEN << >> ELSE BigMulSmallFrom(a, k, 1, 0)

RECURSIVE BigMul(_, _)
BigMul(a, b) ==
    IF b = << >> \/ a = << >> THEN << >>
    ELSE LET rest == BigMul(a, Tail(b))
         IN  BigAdd(BigMulSmall(a, b[1]),
                    IF rest = << >> THEN << >> ELSE <<0>> \o rest)

RECURSIVE BigDivSmallFrom(_, _, _, _)
BigDivSmallFrom(a, k, i, rem) ==
    IF i = 0 THEN << >>
    ELSE LET cur == rem * LimbBase + a[i]
         IN  BigDivSmallFrom(a, k, i - 1, cur % k) \o <<cur \div k>>

\* floor(a / k) for 0 < k < LimbBase.
BigDivSmall(a, k) == BigNorm(BigDivSmallFrom(a, k, Len(a), 0))

Zeros(n) == [i \in 1..n |-> 0]

\* a * 2^k.
BigShl(a, k) ==
    IF a = << >> THEN << >>
    ELSE Zeros(k \div LimbBits) \o BigMulSmall(a, Pow2(k % LimbBits))

\* floor(a / 2^k).
BigShr(a, k) ==
    IF k \div LimbBits >= Len(a) THEN << >>
    ELSE BigDivSmall(SubSeq(a, (k \div LimbBits) + 1, Len(a)), Pow2(k % LimbBits))

RECURSIVE IntBitLen(_)
IntBitLen(n) == IF n = 0 THEN 0 ELSE 1 + IntBitLen(n \div 2)

\* The number of binary digits of a (0 for zero).
BigBitLen(a) ==
    IF a = << >> THEN 0
    ELSE LimbBits * (Len(a) - 1) + IntBitLen(a[Len(a)])

BigIsOdd(a) == a # << >> /\ a[1] % 2 = 1

\* a mod k for 0 < k < LimbBase.
BigModSmall(a, k) == BigToInt(BigSub(a, BigMulSmall(BigDivSmall(a, k), k)))

DigitStr == <<"0", "1", "2", "3", "4", "5", "6", "7", "8", "9">>

RECURSIVE BigDecStr(_)
\* The decimal digits of a, "0" for zero.
BigDecStr(a) ==
    IF BigCmp(a, BigFromInt(10)) < 0 THEN DigitStr[BigToInt(a) + 1]
    ELSE BigDecStr(BigDivSmall(a, 10)) \o DigitStr[BigModSmall(a, 10) + 1]

(***************************************************************************)
(* JavaScript numbers.  A number is NaN, an infinity, a signed zero or a   *)
(* finite non-zero binary64 value (-1)^neg * m * 2^e with                  *)
(* 2^52 <= m < 2^53.  Every operation returns the exact result rounded to  *)
(* nearest, ties to even, as IEEE 754 prescribes.  The values of this      *)
(* model stay far inside the normal range, so subnormals and overflow to   *)
(* infinity by rounding are left out.                                      *)
(***************************************************************************)
MantBits == 53

DNaN == [cls |-> "nan", neg |-> FALSE, m |-> << >>, e |-> 0]

DInf(neg) == [cls |-> "inf", neg |-> neg, m |-> << >>, e |-> 0]

DZero(neg) == [cls |-> "zero", neg |-> neg, m |-> << >>, e |-> 0]

DFin(neg, m, e) == [cls |-> "fin", neg |-> neg, m |-> m, e |-> e]

RECURSIVE QuotientBits(_, _, _)
\* k more binary digits of a quotient by d: from qr = <<q, r>>, the digits q
\* so far and the remainder r < d, to the same pair k digits later.
QuotientBits(qr, d, k) ==
    IF k = 0 THEN qr
    ELSE LET r2 == BigMulSmall(qr[2], 2)
         IN  IF BigCmp(r2, d) >= 0
             THEN QuotientBits(<<BigAdd(BigMulSmall(qr[1], 2), <<1>>), BigSub(r2, d)>>,
                               d, k - 1)
             ELSE QuotientBits(<<BigMulSmall(qr[1], 2), r2>>, d, k - 1)

\* The last step of rounding: q1 has MantBits digits, or one more when the
\* round-up carried into a new digit.
RoundCarry(neg, q1, e2) ==
    IF BigBitLen(q1) > MantBits
    THEN DFin(neg, BigDivSmall(q1, 2), e2 - (MantBits - 1) + 1)
    ELSE DFin(neg, q1, e2 - (MantBits - 1))

\* To nearest, ties to even: c is the sign of 2 * remainder - divisor.
RoundNearest(neg, qr, c, e2) ==
    RoundCarry(neg,
               IF c > 0 \/ (c = 0 /\ BigIsOdd(qr[1]))
               THEN BigAdd(qr[1], <<1>>) ELSE qr[1],
               e2)

RoundDigits(neg, qr, d1, e2) ==
    RoundNearest(neg, qr, BigCmp(BigMulSmall(qr[2], 2), d1), e2)

\* n2 / d1 lies in [1, 2): its leading digit is 1.
RoundUnit(neg, n2, d1, e2) ==
    RoundDigits(neg,
                QuotientBits(<<(<<1>>), BigSub(n2, d1)>>, d1, MantBits - 1),
                d1, e2)

\* n1 and d1 have as many digits as each other; low is n1 < d1.
RoundHalf(neg, n1, d1, e1, low) ==
    RoundUnit(neg, IF low THEN BigMulSmall(n1, 2) ELSE n1, d1,
              e1 - (IF low THEN 1 ELSE 0))

RoundAligned(neg, n1, d1, e1) ==
    RoundHalf(neg, n1, d1, e1, BigCmp(n1, d1) < 0)

\* ln and ld are the numbers of digits of n and d.
RoundLens(neg, n, d, e0, ln, ld) ==
    RoundAligned(neg,
                 IF ln < ld THEN BigShl(n, ld - ln) ELSE n,
                 IF ln > ld THEN BigShl(d, ln - ld) ELSE d,
                 e0 + (ln - ld))

\* The binary64 nearest to (-1)^neg * (n / d) * 2^e0 for naturals n, d > 0.
RoundQ(neg, n, d, e0) ==
    RoundLens(neg, n, d, e0, BigBitLen(n), BigBitLen(d))

\* The number a JSON or source literal with one decimal digit denotes: t / 10.
DFromTenths(t) ==
    IF t = 0 THEN DZero(FALSE)
    ELSE RoundQ(t < 0, BigFromInt(IF t < 0 THEN -t ELSE t), BigFromInt(10), 0)

DFromInt(n) == DFromTenths(10 * n)

DNeg(a) == IF a.cls = "nan" THEN a ELSE [a EXCEPT !.neg = ~a.neg]

Min2(x, y) == IF x <= y THEN x ELSE y

\* The sum of two finite non-zero numbers whose significands x and y are
\* scaled to the exponent em; c is the sign of x - y.
DAddScaled(a, b, em, x, y, c) ==
    IF a.neg # b.neg /\ c = 0 THEN DZero(FALSE)
    ELSE RoundQ(IF a.neg = b.neg \/ c > 0 THEN a.neg ELSE b.neg,
                IF a.neg = b.neg THEN BigAdd(x, y)
                ELSE IF c > 0 THEN BigSub(x, y) ELSE BigSub(y, x),
                <<1>>, em)

DAddAligned(a, b, em, x, y) == DAddScaled(a, b, em, x, y, BigCmp(x, y))

DAddAt(a, b, em) ==
    DAddAligned(a, b, em, BigShl(a.m, a.e - em), BigShl(b.m, b.e - em))

\* a + b
DAdd(a, b) ==
    IF a.cls = "nan" \/ b.cls = "nan" THEN DNaN
    ELSE IF a.cls = "inf"
         THEN IF b.cls = "inf" /\ b.neg # a.neg THEN DNaN ELSE a
    ELSE IF b.cls = "inf" THEN b
    ELSE IF a.cls = "zero"
         THEN IF b.cls = "zero" THEN DZero(a.neg /\ b.neg) ELSE b
    ELSE IF b.cls = "zero" THEN a
    ELSE DAddAt(a, b, Min2(a.e, b.e))

\* a - b
DSub(a, b) == DAdd(a, DNeg(b))

\* a * b
DMul(a, b) ==
    IF a.cls = "nan" \/ b.cls = "nan" THEN DNaN
    ELSE IF a.cls = "inf" \/ b.cls = "inf"
         THEN IF a.cls = "zero" \/ b.cls = "zero" THEN DNaN
              ELSE DInf(a.neg # b.neg)
    ELSE IF a.cls = "zero" \/ b.cls = "zero" THEN DZero(a.neg # b.neg)
    ELSE RoundQ(a.neg # b.neg, BigMul(a.m, b.m), <<1>>, a.e + b.e)

\* a / b
DDiv(a, b) ==
    IF a.cls = "nan" \/ b.cls = "nan" THEN DNaN
    ELSE IF a.cls = "inf"
         THEN IF b.cls = "inf" THEN DNaN ELSE DInf(a.neg # b.neg)
    ELSE IF b.cls = "inf" THEN DZero(a.neg # b.neg)
    ELSE IF b.cls = "zero"
         THEN IF a.cls = "zero" THEN DNaN ELSE DInf(a.neg # b.neg)
    ELSE IF a.cls = "zero" THEN DZero(a.neg # b.neg)
    ELSE RoundQ(a.neg # b.neg, a.m, b.m, a.e - b.e)

(***************************************************************************)
(* Number.prototype.toFixed(1) on a finite x picks the integer n for which *)
(* n / 10 - |x| is closest to zero, the larger n of two, that is           *)
(* n = floor(10 |x| + 1/2) on the exact value of the binary64.             *)
(* (Numbers of 10^21 and more print in exponent form; none arises here.)   *)
(***************************************************************************)
FixedTenths(x) ==
    IF x.cls = "zero" THEN << >>
    ELSE IF x.e >= 0 THEN BigShl(BigMulSmall(x.m, 10), x.e)
    ELSE BigShr(BigAdd(BigMulSmall(x.m, 20), BigShl(<<1>>, -x.e)), 1 - x.e)

TenthsStr(n) ==
    BigDecStr(BigDivSmall(n, 10)) \o "." \o DigitStr[BigModSmall(n, 10) + 1]

ToFixed1(x) ==
    IF x.cls = "nan" THEN "NaN"
    ELSE IF x.cls = "inf" THEN (IF x.neg THEN "-Infinity" ELSE "Infinity")
    ELSE IF x.cls = "zero" THEN "0.0"
    ELSE (IF x.neg THEN "-" ELSE "") \o TenthsStr(FixedTenths(x))

\* parseFloat(x.toFixed(1)): the number the printed digits denote.
ParseFixed1(x) ==
    IF x.cls \in {"nan", "inf"} THEN x
    ELSE IF FixedTenths(x) = << >> THEN DZero(x.cls = "fin" /\ x.neg)
    ELSE RoundQ(x.neg, FixedTenths(x), BigFromInt(10), 0)

(***************************************************************************)
(* The data store: the one table "districts", a set of monthly district     *)
(* records.  A metric is a JSON value: null or a number, the number given   *)
(* in tenths (423 is 42.3).                                                 *)
(***************************************************************************)
JNull == [t |-> "null", v |-> 0]

JNum(tenths) == [t |-> "num", v |-> tenths]

\* ToNumber: null is +0.
ToNumber(j) == IF j.t = "null" THEN DZero(FALSE) ELSE DFromTenths(j.v)

\* ToBoolean of a metric: null and 0 are falsy.
Truthy(j) == j.t = "num" /\ j.v # 0

\* The names of the model in the store's ORDER BY order.
NameOrder == <<"Assam", "Bihar", "Kerala", "Nagpur", "Patna", "Pune">>

NameRank(name) == CHOOSE i \in 1..Len(NameOrder) : NameOrder[i] = name

Metrics(hh, days, exp, works) ==
    [total_households |-> hh, avg_days_per_household |-> days,
     total_expenditure |-> exp, works_completed |-> works]

Row(dc, dn, sc, sn, month, m) ==
    [district_code |-> dc, district_name |-> dn, state_code |-> sc,
     state_name |-> sn, month |-> month,
     total_households |-> m.total_households,
     avg_days_per_household |-> m.avg_days_per_household,
     total_expenditure |-> m.total_expenditure,
     works_completed |-> m.works_completed,
     updated_at |-> 100 * NameRank(dn) + month]

RECURSIVE OrderedBy(_, _)
\* Every listing of the rows S in which rank never decreases: rows of equal
\* rank come in any order, as from a query whose ORDER BY leaves them tied.
OrderedBy(S, rank) ==
    IF S = {} THEN {<< >>}
    ELSE UNION {{<<x>> \o rest : rest \in OrderedBy(S \ {x}, rank)} :
                x \in {y \in S : \A z \in S : rank[y] <= rank[z]}}

FirstN(seq, n) == SubSeq(seq, 1, Min2(n, Len(seq)))

\* .from('districts').select('state_code, state_name').order('state_name')
QueryStates(st) ==
    LET Proj(r) == [state_code |-> r.state_code, state_name |-> r.state_name]
    IN  {[i \in 1..Len(rows) |-> Proj(rows[i])] :
         rows \in OrderedBy(st, [r \in st |-> NameRank(r.state_name)])}

\* .select('district_code, district_name').eq('state_code', stateCode)
\* .order('district_name')
QueryDistricts(st, stateCode) ==
    LET sel == {r \in st : r.state_code = stateCode}
        Proj(r) == [district_code |-> r.district_code,
                    district_name |-> r.district_name]
    IN  {[i \in 1..Len(rows) |-> Proj(rows[i])] :
         rows \in OrderedBy(sel, [r \in sel |-> NameRank(r.district_name)])}

\* The query with ascending: true.
QueryEarliestTwo(st, districtCode) ==
    LET sel == {r \in st : r.district_code = districtCode}
    IN  {FirstN(rows, 2) : rows \in OrderedBy(sel, [r \in sel |-> r.month])}

\* .select('*').eq('district_code', districtCode)
\* .order('month', { ascending: false }).limit(2)
QueryLatestTwo(st, districtCode) ==
    LET sel == {r \in st : r.district_code = districtCode}
    IN  {FirstN(rows, 2) : rows \in OrderedBy(sel, [r \in sel |-> 0 - r.month])}

\* .select('avg_days_per_household').eq('state_code', ..).eq('month', ..)
QueryStateData(st, stateCode, month) ==
    LET sel == {r \in st : r.state_code = stateCode /\ r.month = month}
        Proj(r) == [avg_days_per_household |-> r.avg_days_per_household]
    IN  {[i \in 1..Len(rows) |-> Proj(rows[i])] : rows \in OrderedBy(sel, [r \in sel |-> 0])}

(***************************************************************************)
(* [...new Map(data.map(item => [item[key], item])).values()]: a Map keeps  *)
(* a key at the position of its first insertion and the value of its last.  *)
(***************************************************************************)
RECURSIVE MapKeys(_, _)
\* The keys of data in the order of their first occurrence.
MapKeys(data, key) ==
    IF data = << >> THEN << >>
    ELSE LET init == MapKeys(SubSeq(data, 1, Len(data) - 1), key)
             k    == data[Len(data)][key]
         IN  IF \E i \in 1..Len(init) : init[i] = k THEN init
             ELSE Append(init, k)

MapValue(data, key, k) ==
    data[CHOOSE i \in 1..Len(data) :
            /\ data[i][key] = k
            /\ \A j \in (i + 1)..Len(data) : data[j][key] # k]

UniqueBy(data, key) ==
    LET keys == MapKeys(data, key)
    IN  [i \in 1..Len(keys) |-> MapValue(data, key, keys[i])]

\* The rows as the store returned them.
uniqueStatesAll(data) == data

uniqueStates(data) == UniqueBy(data, "state_code")

uniqueDistricts(data) == UniqueBy(data, "district_code")

(***************************************************************************)
(* The server.                                                              *)
(*   store  the table's rows (managed outside the server)                   *)
(*   cache  the Map `cache`: key -> [data, timestamp]                       *)
(*   now    Date.now(), in milliseconds since the process started           *)
(*   reqs   the requests received so far, in order of arrival: each with    *)
(*          the place its handler has reached (pc), the handler's local     *)
(*          variables, its response once sent, and a record of what it did  *)
(*   live   the requests whose cache.set no cache.clear has followed        *)
(*   old    the requests that had arrived when cache.clear() last ran       *)
(*   ticks  how many times the clock has advanced                           *)
(***************************************************************************)
VARIABLES store, cache, now, reqs, live, old, ticks

(***************************************************************************)
(* The page (src/frontend/src/App.tsx) in one browser:                      *)
(*   view     the values of the component's useState hooks                  *)
(*   shown    their values at the last render: what the page displays and   *)
(*            what the event handlers of that render close over             *)
(*   mounted  FALSE once a render has thrown and React has removed the page *)
(*   calls    the calls of the async functions that wait for a response     *)
(*   clicks   the user events handled so far                                *)
(***************************************************************************)
VARIABLES view, shown, mounted, calls, clicks

server == <<store, cache, now, reqs, live, old, ticks>>

client == <<view, shown, mounted, calls, clicks>>

vars == <<store, cache, now, reqs, live, old, ticks, view, shown, mounted, calls, clicks>>

\* JavaScript's null, and a JSON array: a response body and the values made
\* of it are records, an array wrapped in one.
Null == [null |-> TRUE]

Arr(seq) == [array |-> seq]

IsArray(j) == "array" \in DOMAIN j

\* The useState initial values.
InitView ==
    [states |-> << >>, allDistricts |-> << >>, districts |-> Arr(<< >>),
     selectedState |-> "", selectedDistrict |-> "",
     compareDistricts |-> << >>, performance |-> Null, compareData |-> << >>,
     loading |-> FALSE, error |-> ""]

\* No browser has the page open.
NoClient ==
    /\ view = InitView
    /\ shown = InitView
    /\ mounted = FALSE
    /\ calls = << >>
    /\ clicks = << >>

CACHE_TTL == 15 * 60 * 1000

\* Requests per behaviour, and clock advances per behaviour.
MaxReqs == 2

MaxTicks == 1

\* The clock advances by a millisecond, by the expiry time or by a millisecond
\* less, so that entries are looked up at the ages 1, CACHE_TTL - 1 and
\* CACHE_TTL.
TickSteps == {1, CACHE_TTL - 1, CACHE_TTL}

NoEntry == -1

\* A request as it arrives.  lookupAt, entryTs (the timestamp of the entry
\* found under the key, if any), hit, seen (the live writers of the key at the
\* lookup), queries (store queries issued), rows (what the first query
\* returned), currentError and stateError (a query failed), stateData and
\* doneAt record what happened; the rest is the handler's own state.
NewRequest(kind, param) ==
    [kind |-> kind, param |-> param, key |-> "", pc |-> "start",
     lookupAt |-> now, entryTs |-> NoEntry, hit |-> FALSE, seen |-> {},
     queries |-> 0, rows |-> << >>, currentError |-> FALSE,
     stateData |-> << >>, stateError |-> FALSE,
     status |-> 0, body |-> << >>, doneAt |-> NoEntry]

\* res.json(body), after res.status(status) if any.
Respond(r, status, body) ==
    [r EXCEPT !.pc = "done", !.status = status, !.body = body, !.doneAt = now]

ErrorBody(error) == [error |-> error, details |-> "store error"]

\* The expiry test with <= for <.
CacheValidInclusive(key) ==
    key \in DOMAIN cache /\ now - cache[key].timestamp <= CACHE_TTL

\* getCachedData, line 59: the entry under key answers the call.
CacheValid(key) ==
    key \in DOMAIN cache /\ now - cache[key].timestamp < CACHE_TTL

\* A .then that returns the data without cache.set.
CacheSetDropped(key, data) == cache

\* A cache.set that keeps the first element of the data only.
CacheSetTruncated(key, data) ==
    [k \in DOMAIN cache \cup {key} |->
        IF k = key THEN [data |-> FirstN(data, 1), timestamp |-> now]
        ELSE cache[k]]

\* cache.set(key, { data, timestamp: Date.now() })
CacheSet(key, data) ==
    [k \in DOMAIN cache \cup {key} |->
        IF k = key THEN [data |-> data, timestamp |-> now] ELSE cache[k]]

\* getCachedData(key, fetchFn) up to its return: a valid entry resolves the
\* promise with cached.data and the handler sends it; otherwise fetchFn is
\* called and its store query is issued.
GetCachedData(kind, param, key) ==
    LET r == [NewRequest(kind, param) EXCEPT
                !.key = key,
                !.entryTs = IF key \in DOMAIN cache THEN cache[key].timestamp
                            ELSE NoEntry,
                !.seen = {i \in live : reqs[i].key = key}]
    IN  /\ reqs' = Append(reqs,
                     IF CacheValid(key)
                     THEN Respond([r EXCEPT !.hit = TRUE], 200, cache[key].data)
                     ELSE [r EXCEPT !.pc = "fetch", !.queries = 1])
        /\ UNCHANGED <<store, cache, now, live, old, ticks, client>>

\* fetchFn's query succeeded: .then stores the result and the handler sends it.
FetchResolved(i, rows, data) ==
    /\ cache' = CacheSet(reqs[i].key, data)
    /\ reqs' = [reqs EXCEPT ![i] = Respond([@ EXCEPT !.rows = rows], 200, data)]
    /\ live' = live \cup {i}
    /\ UNCHANGED <<store, now, old, ticks, client>>

\* A catch that remembers the failure under the key.
FetchRejectedStored(i, error) ==
    /\ reqs' = [reqs EXCEPT ![i] = Respond(@, 500, ErrorBody(error))]
    /\ cache' = CacheSet(reqs[i].key, ErrorBody(error))
    /\ UNCHANGED <<store, now, live, old, ticks, client>>

\* fetchFn threw the store's error: the handler's catch answers 500.
FetchRejected(i, error) ==
    /\ reqs' = [reqs EXCEPT ![i] = Respond(@, 500, ErrorBody(error))]
    /\ UNCHANGED <<store, cache, now, live, old, ticks, client>>

StatesKey == "states"

\* One key for every state's list.
DistrictsKeyShared(stateCode) == "districts_"

DistrictsKey(stateCode) == "districts_" \o stateCode

\* GET /api/states
StatesRequest == GetCachedData("states", "", StatesKey)

StatesFetchOk(i) ==
    /\ reqs[i].kind = "states" /\ reqs[i].pc = "fetch"
    /\ \E rows \in QueryStates(store) : FetchResolved(i, rows, uniqueStates(rows))

StatesFetchError(i) ==
    /\ reqs[i].kind = "states" /\ reqs[i].pc = "fetch"
    /\ FetchRejected(i, "Failed to fetch states")

\* GET /api/districts/:stateCode
DistrictsRequest(stateCode) ==
    GetCachedData("districts", stateCode, DistrictsKey(stateCode))

DistrictsFetchOk(i) ==
    /\ reqs[i].kind = "districts" /\ reqs[i].pc = "fetch"
    /\ \E rows \in QueryDistricts(store, reqs[i].param) :
          FetchResolved(i, rows, uniqueDistricts(rows))

DistrictsFetchError(i) ==
    /\ reqs[i].kind = "districts" /\ reqs[i].pc = "fetch"
    /\ FetchRejected(i, "Failed to fetch districts")

\* syncData, run at startup and by cron every six hours: cache.clear()
syncData ==
    /\ cache' = << >>
    /\ live' = {}
    /\ old' = 1..Len(reqs)
    /\ UNCHANGED <<store, now, reqs, ticks, client>>

\* Time passes.
Tick(d) ==
    /\ now' = now + d
    /\ ticks' = ticks + 1
    /\ UNCHANGED <<store, cache, reqs, live, old, client>>

(***************************************************************************)
(* The stores of the model.                                                 *)
(***************************************************************************)
\* Three records' metrics: 1200 households and 42.3 days; 1000 households,
\* 40.0 days, no expenditure and no works figure; no households and no days
\* figure.
ProfileA == Metrics(JNum(12000), JNum(423), JNum(5000), JNum(300))

ProfileB == Metrics(JNum(10000), JNum(400), JNum(0), JNull)

ProfileC == Metrics(JNum(0), JNull, JNum(2500), JNum(100))

Profiles == {ProfileA, ProfileB, ProfileC}

StateCodes == {"S1", "S2"}

\* S9 is the code of no row.
AllStateCodes == StateCodes \cup {"S9"}

DistrictCodes == {"D1", "D2", "D3", "UNKNOWN"}

\* The rows a store of the model is made of: district D1 of state S1 in three
\* months, its neighbour D2 recorded under either of two names of S1, and D3
\* of state S2.
RowUniverse ==
    {Row("D1", "Pune", "S1", "Assam", 1, m) : m \in Profiles}
    \cup {Row("D1", "Pune", "S1", "Assam", 2, m) : m \in Profiles}
    \cup {Row("D1", "Pune", "S1", "Assam", 3, ProfileA)}
    \cup {Row("D2", "Nagpur", "S1", sn, 2, m) :
            sn \in {"Assam", "Kerala"}, m \in {ProfileB, ProfileC}}
    \cup {Row("D3", "Patna", "S2", "Bihar", 2, ProfileA)}

\* One row per district and month.
DataStores ==
    {st \in SUBSET RowUniverse :
        \A r1 \in st, r2 \in st :
            r1.district_code = r2.district_code /\ r1.month = r2.month => r1 = r2}

(***************************************************************************)
(* GET /api/performance/:districtCode                                       *)
(***************************************************************************)
\* (((current - previous) / previous) * 100).toFixed(1) on two metric values
PercentChange(cur, prev) ==
    ToFixed1(DMul(DDiv(DSub(ToNumber(cur), ToNumber(prev)), ToNumber(prev)),
                  DFromInt(100)))

\* The metric values that occur in the stores.
MetricValues ==
    {r[f] : r \in RowUniverse,
            f \in {"total_households", "avg_days_per_household",
                   "total_expenditure", "works_completed"}}

\* PercentChange on every pair of metric values, computed once.
PercentTable ==
    [cur \in MetricValues, prev \in MetricValues |-> PercentChange(cur, prev)]

\* const trends = {...}: data is currentData, so current is data[1] and
\* previous, currentData[1] || null, is data[2] when there is one.
trends(data) ==
    IF Len(data) >= 2
    THEN [households  |-> PercentTable[data[1].total_households,
                                        data[2].total_households],
          days        |-> PercentTable[data[1].avg_days_per_household,
                                        data[2].avg_days_per_household],
          expenditure |-> PercentTable[data[1].total_expenditure,
                                        data[2].total_expenditure],
          works       |-> PercentTable[data[1].works_completed,
                                        data[2].works_completed]]
    ELSE [households |-> "0", days |-> "0", expenditure |-> "0", works |-> "0"]

\* parseFloat(d.avg_days_per_household || 0)
PeerDays(d) ==
    IF Truthy(d.avg_days_per_household) THEN ToNumber(d.avg_days_per_household)
    ELSE DZero(FALSE)

RECURSIVE SumDays(_)
\* stateData.reduce((sum, d) => sum + parseFloat(...), 0)
SumDays(stateData) ==
    IF stateData = << >> THEN DZero(FALSE)
    ELSE DAdd(SumDays(SubSeq(stateData, 1, Len(stateData) - 1)),
              PeerDays(stateData[Len(stateData)]))

\* const stateAverage = stateData && stateData.length > 0 ? ... : 0, where
\* stateData is null (isNull) when the query failed.
stateAverage(isNull, stateData) ==
    IF ~isNull /\ Len(stateData) > 0
    THEN DDiv(SumDays(stateData), DFromInt(Len(stateData)))
    ELSE DZero(FALSE)

\* The answers the state query can give on the stores of the model.
StateDataLists ==
    UNION {UNION {QueryStateData(st, sc, r.month) : sc \in AllStateCodes, r \in st}
           : st \in DataStores}

\* parseFloat(stateAverage.toFixed(1)) on every answer of the state query and
\* on its failure (stateData null), computed once.
AverageTable ==
    [isNull \in BOOLEAN, stateData \in StateDataLists \cup {<< >>} |->
        ParseFixed1(stateAverage(isNull, stateData))]

PerformanceBody(data, isNull, stateData) ==
    [district     |-> data[1],
     trends       |-> trends(data),
     stateAverage |-> AverageTable[isNull, stateData],
     lastUpdated  |-> data[1].updated_at]

\* The handler up to its first await: the latest-two-records query is issued.
PerformanceRequest(districtCode) ==
    /\ reqs' = Append(reqs, [NewRequest("performance", districtCode) EXCEPT
                               !.pc = "query1", !.queries = 1])
    /\ UNCHANGED <<store, cache, now, live, old, ticks, client>>

\* currentError: thrown, and answered 500 by the catch.
PerformanceCurrentError(i) ==
    /\ reqs[i].kind = "performance" /\ reqs[i].pc = "query1"
    /\ reqs' = [reqs EXCEPT ![i] =
                  Respond([@ EXCEPT !.currentError = TRUE], 500,
                          ErrorBody("Failed to fetch performance data"))]
    /\ UNCHANGED <<store, cache, now, live, old, ticks, client>>

\* The handler without its length check: current is undefined, reading
\* current.state_code throws and the catch answers 500.
PerformanceCurrentDataUnchecked(i) ==
    /\ reqs[i].kind = "performance" /\ reqs[i].pc = "query1"
    /\ \E data \in QueryLatestTwo(store, reqs[i].param) :
          reqs' = [reqs EXCEPT ![i] =
                     IF Len(data) = 0
                     THEN Respond(@, 500,
                                  ErrorBody("Failed to fetch performance data"))
                     ELSE [@ EXCEPT !.pc = "query2", !.rows = data,
                                    !.queries = 2]]
    /\ UNCHANGED <<store, cache, now, live, old, ticks, client>>

\* The first query answered: 404 for no record, else the state query is issued.
PerformanceCurrentData(i) ==
    /\ reqs[i].kind = "performance" /\ reqs[i].pc = "query1"
    /\ \E data \in QueryLatestTwo(store, reqs[i].param) :
          reqs' = [reqs EXCEPT ![i] =
                     IF Len(data) = 0
                     THEN Respond(@, 404, [error |-> "District not found"])
                     ELSE [@ EXCEPT !.pc = "query2", !.rows = data,
                                    !.queries = 2]]
    /\ UNCHANGED <<store, cache, now, live, old, ticks, client>>

\* The handler keeping its result in the cache map.
PerformanceStateDataStored(i) ==
    /\ reqs[i].kind = "performance" /\ reqs[i].pc = "query2"
    /\ \E sd \in QueryStateData(store, reqs[i].rows[1].state_code,
                                reqs[i].rows[1].month) :
          /\ reqs' = [reqs EXCEPT ![i] =
                        Respond([@ EXCEPT !.stateData = sd], 200,
                                PerformanceBody(reqs[i].rows, FALSE, sd))]
          /\ cache' = CacheSet("performance_" \o reqs[i].param,
                               PerformanceBody(reqs[i].rows, FALSE, sd))
    /\ UNCHANGED <<store, now, live, old, ticks, client>>

\* The state query answered with rows: the result is computed and sent.
PerformanceStateData(i) ==
    /\ reqs[i].kind = "performance" /\ reqs[i].pc = "query2"
    /\ \E sd \in QueryStateData(store, reqs[i].rows[1].state_code,
                                reqs[i].rows[1].month) :
          reqs' = [reqs EXCEPT ![i] =
                     Respond([@ EXCEPT !.stateData = sd], 200,
                             PerformanceBody(reqs[i].rows, FALSE, sd))]
    /\ UNCHANGED <<store, cache, now, live, old, ticks, client>>

\* stateError: logged only; stateData is null and the handler goes on.
PerformanceStateError(i) ==
    /\ reqs[i].kind = "performance" /\ reqs[i].pc = "query2"
    /\ reqs' = [reqs EXCEPT ![i] =
                  Respond([@ EXCEPT !.stateError = TRUE], 200,
                          PerformanceBody(reqs[i].rows, TRUE, << >>))]
    /\ UNCHANGED <<store, cache, now, live, old, ticks, client>>

(***************************************************************************)
(* The stores of the specifications.                                        *)
(***************************************************************************)
\* The store of Spec: D1 in two months and D2 in state S1, D2's row naming
\* the state differently, and D3 in state S2.
CacheStores ==
    {{Row("D1", "Pune", "S1", "Assam", 1, ProfileB),
      Row("D1", "Pune", "S1", "Assam", 2, ProfileA),
      Row("D2", "Nagpur", "S1", "Kerala", 2, ProfileB),
      Row("D3", "Patna", "S2", "Bihar", 2, ProfileA)}}

InitServer ==
    /\ cache = << >>
    /\ now = 0
    /\ reqs = << >>
    /\ live = {}
    /\ old = {}
    /\ ticks = 0

(***************************************************************************)
(* Spec: the cached endpoints under concurrency, expiry and cache clears.   *)
(***************************************************************************)
Init == store \in CacheStores /\ InitServer /\ NoClient

Next ==
    \/ Len(reqs) < MaxReqs /\ StatesRequest
    \/ \E sc \in StateCodes : Len(reqs) < MaxReqs /\ DistrictsRequest(sc)
    \/ \E i \in 1..Len(reqs) : StatesFetchOk(i)
    \/ \E i \in 1..Len(reqs) : StatesFetchError(i)
    \/ \E i \in 1..Len(reqs) : DistrictsFetchOk(i)
    \/ \E i \in 1..Len(reqs) : DistrictsFetchError(i)
    \/ syncData
    \/ \E d \in TickSteps : ticks < MaxTicks /\ Tick(d)

Spec == Init /\ [][Next]_vars

(***************************************************************************)
(* SpecData: one request of any kind against every store of the family.     *)
(***************************************************************************)
InitData == store \in DataStores /\ InitServer /\ NoClient

NextData ==
    \/ reqs = << >> /\ StatesRequest
    \/ \E sc \in AllStateCodes : reqs = << >> /\ DistrictsRequest(sc)
    \/ \E dc \in DistrictCodes : reqs = << >> /\ PerformanceRequest(dc)
    \/ \E i \in 1..Len(reqs) : StatesFetchOk(i)
    \/ \E i \in 1..Len(reqs) : StatesFetchError(i)
    \/ \E i \in 1..Len(reqs) : DistrictsFetchOk(i)
    \/ \E i \in 1..Len(reqs) : DistrictsFetchError(i)
    \/ \E i \in 1..Len(reqs) : PerformanceCurrentError(i)
    \/ \E i \in 1..Len(reqs) : PerformanceCurrentData(i)
    \/ \E i \in 1..Len(reqs) : PerformanceStateData(i)
    \/ \E i \in 1..Len(reqs) : PerformanceStateError(i)

SpecData == InitData /\ [][NextData]_vars

(***************************************************************************)
(* SpecLive: requests of every kind while the external data process writes  *)
(* the table and the cache is cleared.                                      *)
(***************************************************************************)
\* The table before and after the data process adds month 2.
StoreBefore ==
    {Row("D1", "Pune", "S1", "Assam", 1, ProfileB),
     Row("D3", "Patna", "S2", "Bihar", 2, ProfileA)}

StoreAfter ==
    StoreBefore \cup {Row("D1", "Pune", "S1", "Assam", 2, ProfileA),
                      Row("D2", "Nagpur", "S1", "Assam", 2, ProfileB)}

LiveStores == {StoreBefore, StoreAfter}

\* The data process, outside the server, rewrites the table.
StoreUpdate ==
    /\ store' \in LiveStores \ {store}
    /\ UNCHANGED <<cache, now, reqs, live, old, ticks, client>>

LiveDistrictCodes == {"D1", "UNKNOWN"}

InitLive == store = StoreBefore /\ InitServer /\ NoClient

NextLive ==
    \/ Len(reqs) < MaxReqs /\ StatesRequest
    \/ Len(reqs) < MaxReqs /\ DistrictsRequest("S1")
    \/ \E dc \in LiveDistrictCodes : Len(reqs) < MaxReqs /\ PerformanceRequest(dc)
    \/ \E i \in 1..Len(reqs) : StatesFetchOk(i)
    \/ \E i \in 1..Len(reqs) : StatesFetchError(i)
    \/ \E i \in 1..Len(reqs) : DistrictsFetchOk(i)
    \/ \E i \in 1..Len(reqs) : DistrictsFetchError(i)
    \/ \E i \in 1..Len(reqs) : PerformanceCurrentError(i)
    \/ \E i \in 1..Len(reqs) : PerformanceCurrentData(i)
    \/ \E i \in 1..Len(reqs) : PerformanceStateData(i)
    \/ \E i \in 1..Len(reqs) : PerformanceStateError(i)
    \/ syncData
    \/ StoreUpdate
    \/ \E d \in TickSteps : ticks < MaxTicks /\ Tick(d)

SpecLive == InitLive /\ [][NextLive]_vars

(***************************************************************************)
(* The page.  A fetch ends in a response of the server, whatever its status *)
(* (fetch resolves on 404 and 500 too, and res.json() parses the body), or  *)
(* in a rejection when the server cannot be reached.  The responses are     *)
(* those the handlers above give on the store.                              *)
(***************************************************************************)
NetworkFailure == [status |-> 0, body |-> Null]

StatesResponses ==
    {[status |-> 200, body |-> Arr(uniqueStates(rows))] : rows \in QueryStates(store)}
    \cup {[status |-> 500, body |-> ErrorBody("Failed to fetch states")]}

DistrictsResponses(stateCode) ==
    {[status |-> 200, body |-> Arr(uniqueDistricts(rows))] :
        rows \in QueryDistricts(store, stateCode)}
    \cup {[status |-> 500, body |-> ErrorBody("Failed to fetch districts")]}

\* The responses to a performance request whose first query gave data.
PerformanceAnswers(data) ==
    IF data = << >>
    THEN {[status |-> 404, body |-> [error |-> "District not found"]]}
    ELSE {[status |-> 200, body |-> PerformanceBody(data, FALSE, sd)] :
             sd \in QueryStateData(store, data[1].state_code, data[1].month)}
         \cup {[status |-> 200, body |-> PerformanceBody(data, TRUE, << >>)]}

PerformanceResponses(districtCode) ==
    UNION {PerformanceAnswers(data) : data \in QueryLatestTwo(store, districtCode)}
    \cup {[status |-> 500, body |-> ErrorBody("Failed to fetch performance data")]}

\* User events per behaviour.
MaxClicks == 2

Remove(seq, c) == SubSeq(seq, 1, c - 1) \o SubSeq(seq, c + 1, Len(seq))

\* The render of the values v returns: districts.map, performance.district
\* (when performance && !loading) and data.district of every compareData
\* element are defined.
Renders(v) ==
    /\ IsArray(v.districts)
    /\ v.performance # Null /\ ~v.loading => "district" \in DOMAIN v.performance
    /\ \A k \in 1..Len(v.compareData) : "district" \in DOMAIN v.compareData[k]

\* useEffect(..., [selectedState]) and useEffect(..., [selectedDistrict]):
\* the calls the effects of a render of v after one of prev start.
EffectCalls(prev, v) ==
    (IF v.selectedState # prev.selectedState /\ v.selectedState # ""
     THEN <<[fn |-> "fetchDistricts", arg |-> v.selectedState]>> ELSE << >>)
    \o (IF v.selectedDistrict # prev.selectedDistrict /\ v.selectedDistrict # ""
        THEN <<[fn |-> "fetchPerformance", arg |-> v.selectedDistrict]>>
        ELSE << >>)

\* fetchPerformance up to its await: setLoading(true); setError('').
EffectView(prev, v) ==
    IF v.selectedDistrict # prev.selectedDistrict /\ v.selectedDistrict # ""
    THEN [v EXCEPT !.loading = TRUE, !.error = ""] ELSE v

\* React renders the component with the current values and runs the effects
\* whose dependencies changed; a render that throws removes the page.
Render ==
    /\ mounted /\ view # shown
    /\ IF Renders(view)
       THEN /\ shown' = view
            /\ calls' = calls \o EffectCalls(shown, view)
            /\ view' = EffectView(shown, view)
            /\ mounted' = TRUE
       ELSE /\ mounted' = FALSE
            /\ UNCHANGED <<view, shown, calls>>
    /\ UNCHANGED <<server, clicks>>

\* The state picker's onChange.
PickState(s) ==
    /\ mounted /\ Len(clicks) < MaxClicks
    /\ s # shown.selectedState
    /\ s \in {""} \cup {shown.states[k].state_code : k \in 1..Len(shown.states)}
    /\ view' = [view EXCEPT !.selectedState = s, !.selectedDistrict = "",
                            !.performance = Null]
    /\ clicks' = Append(clicks, [event |-> "state", state |-> s, code |-> ""])
    /\ UNCHANGED <<server, shown, mounted, calls>>

\* The district picker's onChange; the picker is disabled without a state.
PickDistrict(d) ==
    /\ mounted /\ Len(clicks) < MaxClicks
    /\ shown.selectedState # "" /\ d # shown.selectedDistrict
    /\ d \in {""} \cup {shown.districts.array[k].district_code :
                          k \in 1..Len(shown.districts.array)}
    /\ view' = [view EXCEPT !.selectedDistrict = d]
    /\ clicks' = Append(clicks, [event |-> "district",
                                 state |-> shown.selectedState, code |-> d])
    /\ UNCHANGED <<server, shown, mounted, calls>>

\* A click on element k of the search results, which are allDistricts
\* filtered by the search term.
selectSearchResult(k) ==
    /\ mounted /\ Len(clicks) < MaxClicks
    /\ k \in 1..Len(shown.allDistricts)
    /\ view' = [view EXCEPT
                  !.selectedState = shown.allDistricts[k].state_code,
                  !.selectedDistrict = shown.allDistricts[k].district_code]
    /\ clicks' = Append(clicks, [event |-> "search",
                                 state |-> shown.allDistricts[k].state_code,
                                 code |-> shown.allDistricts[k].district_code])
    /\ UNCHANGED <<server, shown, mounted, calls>>

\* fetchDistricts after its awaits.
fetchDistricts(c) ==
    /\ mounted /\ calls[c].fn = "fetchDistricts"
    /\ \E r \in DistrictsResponses(calls[c].arg) \cup {NetworkFailure} :
          view' = IF r = NetworkFailure
                  THEN [view EXCEPT !.error = "Failed to load districts"]
                  ELSE [view EXCEPT !.districts = r.body,
                                    !.selectedDistrict = "",
                                    !.performance = Null]
    /\ calls' = Remove(calls, c)
    /\ UNCHANGED <<server, shown, mounted, clicks>>

\* fetchPerformance after its awaits.
fetchPerformance(c) ==
    /\ mounted /\ calls[c].fn = "fetchPerformance"
    /\ \E r \in PerformanceResponses(calls[c].arg) \cup {NetworkFailure} :
          view' = IF r = NetworkFailure
                  THEN [view EXCEPT !.error = "Failed to load performance data",
                                    !.loading = FALSE]
                  ELSE [view EXCEPT !.performance = r.body, !.loading = FALSE]
    /\ calls' = Remove(calls, c)
    /\ UNCHANGED <<server, shown, mounted, clicks>>

\* fetchAllDistricts's allDist.push({...d, state_name, state_code}) for the
\* districts of one state.
Tagged(distData, state) ==
    [k \in 1..Len(distData) |->
        [district_code |-> distData[k].district_code,
         district_name |-> distData[k].district_name,
         state_name |-> state.state_name, state_code |-> state.state_code]]

\* The page once fetchStates and fetchAllDistricts have succeeded on a store
\* of two states.
LoadedViews ==
    {[InitView EXCEPT
        !.states = sr.body.array,
        !.allDistricts = Tagged(d1.body.array, sr.body.array[1])
                         \o Tagged(d2.body.array, sr.body.array[2])] :
       sr \in {r \in StatesResponses : r.status = 200},
       d1 \in {r \in DistrictsResponses("S1") : r.status = 200},
       d2 \in {r \in DistrictsResponses("S2") : r.status = 200}}

InitLoaded ==
    /\ view \in LoadedViews
    /\ shown = view
    /\ mounted = TRUE
    /\ calls = << >>
    /\ clicks = << >>

(***************************************************************************)
(* SpecSelect: the pickers and the search on the loaded page.               *)
(***************************************************************************)
InitSelect == store \in CacheStores /\ InitServer /\ InitLoaded

NextSelect ==
    \/ Render
    \/ \E s \in StateCodes \cup {""} : PickState(s)
    \/ \E d \in DistrictCodes \cup {""} : PickDistrict(d)
    \/ \E k \in 1..Len(shown.allDistricts) : selectSearchResult(k)
    \/ \E c \in 1..Len(calls) : fetchDistricts(c)
    \/ \E c \in 1..Len(calls) : fetchPerformance(c)

SpecSelect == InitSelect /\ [][NextSelect]_vars

(***************************************************************************)
(* The comparison set.                                                      *)
(***************************************************************************)
Elems(seq) == {seq[k] : k \in 1..Len(seq)}

\* fetchCompareData(districtCodes) up to its first await: with no code the
\* loop is skipped and setCompareData([]) runs at once.
CompareView(v, districtCodes) ==
    IF districtCodes = << >> THEN [v EXCEPT !.compareData = << >>] ELSE v

CompareCalls(districtCodes) ==
    IF districtCodes = << >> THEN << >>
    ELSE <<[fn |-> "fetchCompareData", arg |-> districtCodes, k |-> 1,
            data |-> << >>]>>

\* The handler appending to the list of the state, not of its render.
addToCompareLatest(districtCode) ==
    /\ mounted /\ Len(clicks) < MaxClicks
    /\ districtCode = shown.selectedDistrict
    /\ shown.performance # Null /\ ~shown.loading
    /\ Len(shown.compareDistricts) < 3
    /\ districtCode \notin Elems(shown.compareDistricts)
    /\ view' = [view EXCEPT
                  !.compareDistricts = Append(view.compareDistricts, districtCode)]
    /\ calls' = calls \o CompareCalls(Append(view.compareDistricts, districtCode))
    /\ clicks' = Append(clicks, [event |-> "add", state |-> "",
                                 code |-> districtCode])
    /\ UNCHANGED <<server, shown, mounted>>

\* A click on the add button, which the page shows with the performance
\* panel while the rendered list has fewer than three codes and not the
\* selected one: addToCompare(selectedDistrict), whose own test is the same.
addToCompare(districtCode) ==
    /\ mounted /\ Len(clicks) < MaxClicks
    /\ districtCode = shown.selectedDistrict
    /\ shown.performance # Null /\ ~shown.loading
    /\ Len(shown.compareDistricts) < 3
    /\ districtCode \notin Elems(shown.compareDistricts)
    /\ view' = [view EXCEPT
                  !.compareDistricts = Append(shown.compareDistricts, districtCode)]
    /\ calls' = calls \o CompareCalls(Append(shown.compareDistricts, districtCode))
    /\ clicks' = Append(clicks, [event |-> "add", state |-> "",
                                 code |-> districtCode])
    /\ UNCHANGED <<server, shown, mounted>>

\* compareDistricts.filter(d => d !== districtCode)
Without(seq, districtCode) ==
    LET Keep(d) == d # districtCode IN SelectSeq(seq, Keep)

\* A click on the remove button of card k of the rendered compareData.
removeFromCompare(k) ==
    /\ mounted /\ Len(clicks) < MaxClicks
    /\ k \in 1..Len(shown.compareData)
    /\ view' = CompareView(
                  [view EXCEPT !.compareDistricts =
                      Without(shown.compareDistricts,
                              shown.compareData[k].district.district_code)],
                  Without(shown.compareDistricts,
                          shown.compareData[k].district.district_code))
    /\ calls' = calls \o CompareCalls(
                            Without(shown.compareDistricts,
                                    shown.compareData[k].district.district_code))
    /\ clicks' = Append(clicks,
                        [event |-> "remove", state |-> "",
                         code |-> shown.compareData[k].district.district_code])
    /\ UNCHANGED <<server, shown, mounted>>

\* The data of call c after the outcome r of its current fetch: a rejection
\* is caught and logged, a response body pushed.
ComparePushed(c, r) ==
    IF r = NetworkFailure THEN calls[c].data ELSE Append(calls[c].data, r.body)

\* fetchCompareData after the awaits of one turn of its loop, the fetch ending
\* in r; after the last turn setCompareData(data).
fetchCompareData(c, r) ==
    /\ mounted /\ calls[c].fn = "fetchCompareData"
    /\ IF calls[c].k = Len(calls[c].arg)
       THEN /\ view' = [view EXCEPT !.compareData = ComparePushed(c, r)]
            /\ calls' = Remove(calls, c)
       ELSE /\ calls' = [calls EXCEPT ![c].k = @ + 1,
                                      ![c].data = ComparePushed(c, r)]
            /\ view' = view
    /\ UNCHANGED <<server, shown, mounted, clicks>>

\* The outcomes of the fetch call c waits for, and the successful ones.
CompareOutcomes(c) ==
    PerformanceResponses(calls[c].arg[calls[c].k]) \cup {NetworkFailure}

CompareSuccesses(c) == {r \in CompareOutcomes(c) : r.status = 200}

\* The performance result the server gives for a district when both of its
\* queries succeed.
PerformanceOf(districtCode) ==
    CHOOSE b \in {r.body : r \in PerformanceResponses(districtCode)} :
       "district" \in DOMAIN b /\ b.stateAverage.cls # "zero"

RECURSIVE PerformancesOf(_)
PerformancesOf(districtCodes) ==
    IF districtCodes = << >> THEN << >>
    ELSE <<PerformanceOf(Head(districtCodes))>> \o PerformancesOf(Tail(districtCodes))

\* The loaded page with state S1 and district D1 picked, D1's performance
\* shown, and none, one or two other districts in the comparison.
CompareViews ==
    {[lv EXCEPT
        !.selectedState = "S1",
        !.districts = dr.body,
        !.selectedDistrict = "D1",
        !.performance = PerformanceOf("D1"),
        !.compareDistricts = cd,
        !.compareData = PerformancesOf(cd)] :
       lv \in LoadedViews,
       dr \in {r \in DistrictsResponses("S1") : r.status = 200},
       cd \in {<< >>, <<"D2">>, <<"D2", "D3">>}}

InitComparing ==
    /\ view \in CompareViews
    /\ shown = view
    /\ mounted = TRUE
    /\ calls = << >>
    /\ clicks = << >>

(***************************************************************************)
(* SpecCompare: additions to and removals from the comparison, with the     *)
(* district picker; SpecCompareUp: the same while every request succeeds.   *)
(***************************************************************************)
InitCompare == store \in CacheStores /\ InitServer /\ InitComparing

NextCompare ==
    \/ Render
    \/ \E d \in DistrictCodes \cup {""} : PickDistrict(d)
    \/ \E c \in 1..Len(calls) : fetchPerformance(c)
    \/ addToCompare(shown.selectedDistrict)
    \/ \E k \in 1..Len(shown.compareData) : removeFromCompare(k)
    \/ \E c \in 1..Len(calls) :
          /\ calls[c].fn = "fetchCompareData"
          /\ \E r \in CompareOutcomes(c) : fetchCompareData(c, r)

SpecCompare == InitCompare /\ [][NextCompare]_vars

NextCompareUp ==
    \/ Render
    \/ addToCompare(shown.selectedDistrict)
    \/ \E k \in 1..Len(shown.compareData) : removeFromCompare(k)
    \/ \E c \in 1..Len(calls) :
          /\ calls[c].fn = "fetchCompareData"
          /\ \E r \in CompareSuccesses(c) : fetchCompareData(c, r)

SpecCompareUp == InitCompare /\ [][NextCompareUp]_vars

(***************************************************************************)
(* The mount effect: fetchStates and fetchAllDistricts.  A call of         *)
(* fetchAllDistricts waits for /states when k = 0 and for the districts of *)
(* statesData[k] otherwise; asked and got record the states it has asked  *)
(* for and the lists it has received.                                      *)
(***************************************************************************)
MountCalls ==
    <<[fn |-> "fetchStates", arg |-> ""],
      [fn |-> "fetchAllDistricts", arg |-> "", k |-> 0, statesData |-> << >>,
       allDist |-> << >>, asked |-> << >>, got |-> << >>]>>

\* fetchStates after its awaits.
fetchStates(c) ==
    /\ mounted /\ calls[c].fn = "fetchStates"
    /\ \E r \in StatesResponses \cup {NetworkFailure} :
          view' = IF r = NetworkFailure
                  THEN [view EXCEPT !.error = "Failed to load states"]
                  ELSE IF IsArray(r.body)
                       THEN [view EXCEPT !.states = r.body.array]
                       ELSE view
    /\ calls' = Remove(calls, c)
    /\ UNCHANGED <<server, shown, mounted, clicks>>

\* The responses the fetch a call of fetchAllDistricts waits for can get.
AllDistrictsFetch(call) ==
    IF call.k = 0 THEN StatesResponses
    ELSE DistrictsResponses(call.statesData[call.k].state_code)

\* The head of the for loop: the fetch for the next state, or
\* setAllDistricts(allDist) after the last one.
AllDistrictsLoop(c, call) ==
    IF call.k = Len(call.statesData)
    THEN /\ view' = [view EXCEPT !.allDistricts = call.allDist]
         /\ calls' = Remove(calls, c)
    ELSE /\ view' = view
         /\ calls' = [calls EXCEPT ![c] =
               [call EXCEPT !.k = @ + 1,
                            !.asked = Append(@, call.statesData[call.k + 1].state_code)]]

\* The same with the list collected so far published when a request fails.
AllDistrictsStepPartial(c, r) ==
    IF r = NetworkFailure \/ ~IsArray(r.body)
    THEN /\ calls' = Remove(calls, c)
         /\ view' = [view EXCEPT !.allDistricts = calls[c].allDist]
    ELSE IF calls[c].k = 0
         THEN AllDistrictsLoop(c, [calls[c] EXCEPT !.statesData = r.body.array])
         ELSE AllDistrictsLoop(c, [calls[c] EXCEPT
                  !.allDist = @ \o Tagged(r.body.array,
                                          calls[c].statesData[calls[c].k]),
                  !.got = Append(@, r.body.array)])

\* fetchAllDistricts resumed with the response r: a rejected fetch, or a
\* body that is no array (for...of and forEach throw), ends in the catch.
AllDistrictsStep(c, r) ==
    IF r = NetworkFailure \/ ~IsArray(r.body)
    THEN /\ calls' = Remove(calls, c)
         /\ view' = view
    ELSE IF calls[c].k = 0
         THEN AllDistrictsLoop(c, [calls[c] EXCEPT !.statesData = r.body.array])
         ELSE AllDistrictsLoop(c, [calls[c] EXCEPT
                  !.allDist = @ \o Tagged(r.body.array,
                                          calls[c].statesData[calls[c].k]),
                  !.got = Append(@, r.body.array)])

fetchAllDistricts(c) ==
    /\ mounted /\ calls[c].fn = "fetchAllDistricts"
    /\ \E r \in AllDistrictsFetch(calls[c]) \cup {NetworkFailure} :
          AllDistrictsStep(c, r)
    /\ UNCHANGED <<server, shown, mounted, clicks>>

(***************************************************************************)
(* SpecMount: the page from its first render, the user picking a state    *)
(* and a district while the lists load.                                    *)
(***************************************************************************)
InitMount ==
    /\ store \in CacheStores
    /\ InitServer
    /\ view = InitView
    /\ shown = InitView
    /\ mounted = TRUE
    /\ calls = MountCalls
    /\ clicks = << >>

NextMount ==
    \/ Render
    \/ \E c \in 1..Len(calls) : fetchStates(c)
    \/ \E c \in 1..Len(calls) : fetchAllDistricts(c)
    \/ \E s \in StateCodes \cup {""} : PickState(s)
    \/ \E c \in 1..Len(calls) : fetchDistricts(c)

SpecMount == InitMount /\ [][NextMount]_vars

(***************************************************************************)
(* SpecPick: the pickers with a server that answers every request, on the  *)
(* loaded page and on the page showing a district.                         *)
(***************************************************************************)
\* fetchDistricts resumed with a 200 response.
DistrictsLoaded(c) ==
    /\ fetchDistricts(c)
    /\ view'.error = view.error /\ IsArray(view'.districts)

\* fetchPerformance resumed with a 200 response.
PerformanceLoaded(c) ==
    /\ fetchPerformance(c)
    /\ view'.error = view.error /\ "district" \in DOMAIN view'.performance

InitPick == store \in CacheStores /\ InitServer /\ (InitLoaded \/ InitComparing)

NextPick ==
    \/ Render
    \/ \E s \in StateCodes \cup {""} : PickState(s)
    \/ \E d \in DistrictCodes \cup {""} : PickDistrict(d)
    \/ \E c \in 1..Len(calls) : DistrictsLoaded(c)
    \/ \E c \in 1..Len(calls) : PerformanceLoaded(c)

SpecPick == InitPick /\ [][NextPick]_vars

(***************************************************************************)
(* Properties.                                                              *)
(***************************************************************************)
Requests(kind) == {j \in 1..Len(reqs) : reqs[j].kind = kind}

Cached == Requests("states") \cup Requests("districts")

Answered(kind, status) ==
    {j \in Requests(kind) : reqs[j].pc = "done" /\ reqs[j].status = status}

\* C1 as stated: of two requests for the states list whose cache lookups are
\* less than 15 minutes apart at most one queries the store, also when the
\* second arrives while the first one's query is in flight; and a lookup 15
\* minutes or more after the entry's timestamp queries the store.
C1_AtMostOneQueryStated ==
    /\ \A i \in Requests("states"), j \in Requests("states") :
          i < j /\ reqs[j].lookupAt - reqs[i].lookupAt < CACHE_TTL
          => reqs[i].queries + reqs[j].queries <= 1
    /\ \A j \in Requests("states") :
          reqs[j].entryTs # NoEntry /\ reqs[j].lookupAt - reqs[j].entryTs >= CACHE_TTL
          => reqs[j].queries = 1

\* C1 amended: a request for the states list whose lookup comes after an
\* earlier request's store query has completed successfully, with no cache
\* clear in between and less than 15 minutes after that completion, is
\* answered from the cache without a store query (so the two query the store
\* once); a request that finds no entry, as one arriving while the first
\* query is in flight does, queries the store itself; and a lookup 15 minutes
\* or more after the entry's timestamp queries the store again.
C1_AtMostOneQuery ==
    \A j \in Requests("states") :
       /\ \A i \in reqs[j].seen :
             reqs[j].lookupAt - reqs[i].doneAt < CACHE_TTL
             => reqs[j].hit /\ reqs[j].queries = 0 /\ reqs[i].queries = 1
       /\ reqs[j].entryTs = NoEntry => reqs[j].queries = 1
       /\ reqs[j].entryTs # NoEntry /\ reqs[j].lookupAt - reqs[j].entryTs >= CACHE_TTL
          => reqs[j].queries = 1

\* A second states request answered from the cache at the age CACHE_TTL - 1.
C1_Witness ==
    \E j \in Requests("states") : \E i \in reqs[j].seen :
       /\ reqs[j].lookupAt - reqs[i].doneAt = CACHE_TTL - 1
       /\ reqs[j].hit /\ reqs[j].queries = 0

\* C2: a request is answered from the cache only if an entry was under its
\* key at the lookup and was then less than 15 minutes old; an entry aged 15
\* minutes or more counts as absent and the store is queried.
C2_ValidWhileFresh ==
    \A j \in Cached :
       /\ reqs[j].hit
          => /\ reqs[j].entryTs # NoEntry
             /\ reqs[j].lookupAt - reqs[j].entryTs < CACHE_TTL
             /\ reqs[j].queries = 0
       /\ reqs[j].entryTs # NoEntry /\ reqs[j].lookupAt - reqs[j].entryTs >= CACHE_TTL
          => ~reqs[j].hit /\ reqs[j].queries = 1

\* A lookup that finds an entry exactly 15 minutes old and queries the store.
C2_Witness ==
    \E j \in Cached :
       /\ reqs[j].entryTs # NoEntry
       /\ reqs[j].lookupAt - reqs[j].entryTs = CACHE_TTL
       /\ ~reqs[j].hit /\ reqs[j].queries = 1

Codes(list, key) == {list[k][key] : k \in 1..Len(list)}

NoDuplicate(list, key) ==
    \A a \in 1..Len(list), b \in 1..Len(list) : list[a][key] = list[b][key] => a = b

\* C5: the list GET /api/states answers with holds each state_code at most
\* once and every state_code of the store, whatever rows the store has.
C5_DistinctStates ==
    \A j \in Answered("states", 200) :
       /\ NoDuplicate(reqs[j].body, "state_code")
       /\ Codes(reqs[j].body, "state_code") = {r.state_code : r \in store}

\* A states list of two codes or more made from rows that repeat a code.
C5_Witness ==
    \E j \in Answered("states", 200) :
       /\ Len(reqs[j].body) >= 2
       /\ Len(reqs[j].rows) > Len(reqs[j].body)

\* C6: the list GET /api/states answers with is in the order of the
\* state_name of its entries, also when rows of one state_code differ in
\* state_name.
C6_OrderedByName ==
    \A j \in Answered("states", 200) :
       \A a \in 1..Len(reqs[j].body), b \in 1..Len(reqs[j].body) :
          a < b => NameRank(reqs[j].body[a].state_name)
                   <= NameRank(reqs[j].body[b].state_name)

\* C7: the list GET /api/districts/s answers with, from the store or from the
\* cache and whatever was requested before, holds only districts that have a
\* record with state_code = s, each district_code once.
C7_DistrictsOfState ==
    \A j \in Answered("districts", 200) :
       /\ NoDuplicate(reqs[j].body, "district_code")
       /\ \A k \in 1..Len(reqs[j].body) :
             \E r \in store : /\ r.state_code = reqs[j].param
                              /\ r.district_code = reqs[j].body[k].district_code
                              /\ r.district_name = reqs[j].body[k].district_name

\* A districts request sent after the list of another state was cached, and
\* answered with a list of its own.
C7_Witness ==
    \E i \in Answered("districts", 200), j \in Answered("districts", 200) :
       /\ i \in live /\ ~reqs[i].hit /\ reqs[i].body # << >>
       /\ reqs[j].param # reqs[i].param
       /\ reqs[j].lookupAt > reqs[i].doneAt
       /\ reqs[j].body # << >>

\* The trends of a performance result and the record fields they are of.
TrendFields ==
    {<<"households", "total_households">>, <<"days", "avg_days_per_household">>,
     <<"expenditure", "total_expenditure">>, <<"works", "works_completed">>}

Abs(x) == IF x < 0 THEN 0 - x ELSE x

\* n tenths, a quarter of 0.05 and more rounded away from zero, in decimal.
\* The sign is printed as toFixed prints it: of the value before rounding.
DecimalStr(neg, n) == (IF neg THEN "-" ELSE "") \o TenthsStr(BigFromInt(n))

\* ((cur - prev) / prev) * 100 to one decimal place, on the decimal values
\* cur / 10 and prev / 10 themselves, prev # 0.
ExactPercent(cur, prev) ==
    LET a == 1000 * (cur - prev)
    IN  DecimalStr((a < 0) # (prev < 0) /\ a # 0,
                   (2 * Abs(a) + Abs(prev)) \div (2 * Abs(prev)))

\* C3: a trend is "0" when there is no previous record or the previous
\* record's value of the metric is zero or null, and no trend is the result
\* of a division by zero ("Infinity", "-Infinity", "NaN").
C3_TrendZeroGuard ==
    \A j \in Answered("performance", 200) : \A f \in TrendFields :
       /\ (Len(reqs[j].rows) < 2 \/ ~Truthy(reqs[j].rows[2][f[2]]))
          => reqs[j].body.trends[f[1]] = "0"
       /\ reqs[j].body.trends[f[1]] \notin {"Infinity", "-Infinity", "NaN"}

\* C4: with two records and a previous value that is not zero, each trend is
\* ((current - previous) / previous) * 100 of its own metric to one decimal
\* place: 1200 against 1000 gives "20.0", 42.3 against 40.0 gives "5.8".
C4_TrendFormula ==
    \A j \in Answered("performance", 200) : \A f \in TrendFields :
       LET cur  == reqs[j].rows[1][f[2]]
           prev == reqs[j].rows[2][f[2]]
       IN  Len(reqs[j].rows) >= 2 /\ Truthy(prev) /\ cur.t = "num"
           => reqs[j].body.trends[f[1]] = ExactPercent(cur.v, prev.v)

RECURSIVE SumTenths(_)
SumTenths(S) ==
    IF S = {} THEN 0
    ELSE LET r == CHOOSE x \in S : TRUE
         IN  r.avg_days_per_household.v + SumTenths(S \ {r})

\* The mean, in tenths and to the nearest tenth, of avg_days_per_household
\* over the records of S that have one; 0 for none.
ExactMeanTenths(S) ==
    LET have == {r \in S : r.avg_days_per_household.t = "num"}
        n    == Cardinality(have)
    IN  IF n = 0 THEN 0 ELSE (2 * SumTenths(have) + n) \div (2 * n)

\* C8: stateAverage is the mean, to one decimal, of avg_days_per_household
\* over the records of the current record's state_code and month, a record
\* without the figure (null) left out of it, and 0 when there is no such
\* record.  (Stated of the requests whose state query was answered.)
C8_StateAverageMean ==
    \A j \in Answered("performance", 200) :
       LET current == reqs[j].rows[1]
           peers   == {r \in store : /\ r.state_code = current.state_code
                                     /\ r.month = current.month}
       IN  ~reqs[j].stateError
           => reqs[j].body.stateAverage = DFromTenths(ExactMeanTenths(peers))

NoRecord(districtCode) == \A r \in store : r.district_code # districtCode

\* C9 as stated: a performance request for a district code without a record
\* is answered 404, never 200 or 500.
C9_NotFoundStated ==
    \A j \in Requests("performance") :
       NoRecord(reqs[j].param) /\ reqs[j].pc = "done" => reqs[j].status = 404

\* C9 amended: a performance request for a district code without a record,
\* whose first query the store answers, is answered 404 with a body of the
\* one field error, after that one store query and with no trends or state
\* average computed; if the store fails the query it is answered 500; it is
\* never answered 200 and never issues the state query.
C9_NotFound ==
    \A j \in Requests("performance") :
       NoRecord(reqs[j].param)
       => /\ reqs[j].pc \in {"query1", "done"}
          /\ reqs[j].queries = 1
          /\ reqs[j].pc = "done" /\ ~reqs[j].currentError
             => /\ reqs[j].status = 404
                /\ DOMAIN reqs[j].body = {"error"}
          /\ reqs[j].pc = "done" /\ reqs[j].currentError
             => reqs[j].status = 500

\* /api/performance/UNKNOWN answered 404.
C9_Witness ==
    \E j \in Answered("performance", 404) :
       reqs[j].param = "UNKNOWN" /\ NoRecord("UNKNOWN")

\* C10: a performance request one of whose store queries failed is answered
\* 500 with an error body, never 200.
C10_UpstreamFailure ==
    \A j \in Requests("performance") :
       reqs[j].pc = "done" /\ (reqs[j].currentError \/ reqs[j].stateError)
       => reqs[j].status = 500 /\ "error" \in DOMAIN reqs[j].body
\* The performance requests that take a step: the one arriving, or the one
\* whose handler goes on.
PerformanceStepping ==
    {i \in 1..Len(reqs') :
        /\ reqs'[i].kind = "performance"
        /\ i <= Len(reqs) => reqs'[i] # reqs[i]}

\* A step of request i's handler reads the store as it is at that step.
ReadsStore(i) ==
    /\ i <= Len(reqs) /\ reqs[i].pc = "query1" /\ ~reqs'[i].currentError
       => reqs'[i].rows \in QueryLatestTwo(store, reqs[i].param)
    /\ i <= Len(reqs) /\ reqs[i].pc = "query2" /\ ~reqs'[i].stateError
       => /\ reqs'[i].stateData
               \in QueryStateData(store, reqs[i].rows[1].state_code,
                                  reqs[i].rows[1].month)
          /\ reqs'[i].body
               = PerformanceBody(reqs[i].rows, FALSE, reqs'[i].stateData)

\* C11: a performance request never reads or writes the cache map: the cache
\* holds only the states key and district-list keys, a step of a performance
\* handler leaves the cache as it is, every performance request issues its
\* own first query and every one answered 200 its own two, and each query's
\* result is what the store holds when it is answered, also when the same
\* district was answered less than 15 minutes earlier.
C11_PerformanceUncached ==
    /\ [](/\ DOMAIN cache \subseteq
               {StatesKey} \cup {DistrictsKey(sc) : sc \in AllStateCodes}
          /\ \A j \in Requests("performance") :
                /\ ~reqs[j].hit /\ reqs[j].queries >= 1
                /\ reqs[j].pc = "done" /\ reqs[j].status = 200
                   => reqs[j].queries = 2)
    /\ [][\A i \in PerformanceStepping : cache' = cache /\ ReadsStore(i)]_vars

\* Two requests for one district, the second arriving less than 15 minutes
\* after the first was answered, answered differently.
C11_Witness ==
    \E i \in Answered("performance", 200), j \in Answered("performance", 200) :
       /\ i < j /\ reqs[i].param = reqs[j].param
       /\ reqs[j].lookupAt - reqs[i].doneAt < CACHE_TTL
       /\ reqs[j].lookupAt > reqs[i].doneAt
       /\ reqs[i].body # reqs[j].body
RecordsOf(districtCode) == {r \in store : r.district_code = districtCode}

Latest(S) == CHOOSE r \in S : \A q \in S : q.month <= r.month

\* C12: in a performance response district is the district's record of the
\* greatest month, lastUpdated is that record's updated_at, each trend is the
\* percent change from the record of the next greatest month to it, and all
\* four trends are "0" when the district has one record only.
C12_LatestRecords ==
    \A j \in Answered("performance", 200) :
       LET mine    == RecordsOf(reqs[j].param)
           current == Latest(mine)
           rest    == mine \ {current}
       IN  /\ reqs[j].body.district = current
           /\ reqs[j].body.lastUpdated = current.updated_at
           /\ \A f \in TrendFields :
                 reqs[j].body.trends[f[1]] =
                    IF rest = {} THEN "0"
                    ELSE PercentTable[current[f[2]], Latest(rest)[f[2]]]

\* A response for a district of three records, of which the query returns the
\* latest two.
C12_Witness ==
    \E j \in Answered("performance", 200) :
       /\ Cardinality(RecordsOf(reqs[j].param)) = 3
       /\ reqs[j].body.district.month = 3
       /\ reqs[j].rows[2].month = 2
\* The requests that may have written the entry request j found at its
\* lookup: those whose cache.set, under j's key and not yet cleared, bears
\* the entry's timestamp.
Writers(j) == {i \in reqs[j].seen : reqs[i].doneAt = reqs[j].entryTs}

\* C13: a states or districts request that arrives after cache.clear() ran
\* and is answered from the cache is answered from an entry written by a
\* request that arrived, and so queried the store, after the clear; never
\* from the result of a query that was in flight when the clear ran.
C13_FreshAfterClear ==
    \A j \in Cached :
       j \notin old /\ reqs[j].hit => \E i \in Writers(j) : i \notin old
\* The key of request j's endpoint and parameter.
OwnKey(j) ==
    IF reqs[j].kind = "states" THEN StatesKey ELSE DistrictsKey(reqs[j].param)

\* The deduplicated results the store query of request j's endpoint and
\* parameter can give.
OwnResults(j) ==
    IF reqs[j].kind = "states"
    THEN {uniqueStates(rows) : rows \in QueryStates(store)}
    ELSE {uniqueDistricts(rows) : rows \in QueryDistricts(store, reqs[j].param)}

\* C14: whatever the interleaving of states and districts requests at their
\* store queries, every cache entry is the whole deduplicated result of one
\* request's query for that key, with the time that request stored it; every
\* request uses the key of its own endpoint and parameter and is answered 200
\* with a result of its own query; and no request issues more than one query,
\* so n overlapping requests for a key issue at most n.
C14_NoCorruption ==
    /\ \A k \in DOMAIN cache :
          /\ DOMAIN cache[k] = {"data", "timestamp"}
          /\ \E i \in Cached :
                /\ reqs[i].key = k /\ i \in live /\ reqs[i].queries = 1
                /\ cache[k].data = reqs[i].body
                /\ cache[k].timestamp = reqs[i].doneAt
                /\ cache[k].data \in OwnResults(i)
    /\ \A j \in Cached :
          /\ reqs[j].key = OwnKey(j)
          /\ reqs[j].queries <= 1
          /\ reqs[j].pc = "done" /\ reqs[j].status = 200
             => reqs[j].body \in OwnResults(j)

\* Two requests for one key, the second arriving while the first one's query
\* is in flight, both answered from their own queries.
C14_Witness ==
    \E i \in Cached, j \in Cached :
       /\ i < j /\ reqs[i].key = reqs[j].key
       /\ reqs[i].queries = 1 /\ reqs[j].queries = 1
       /\ reqs[i].pc = "done" /\ reqs[j].pc = "done"
       /\ reqs[j].entryTs = NoEntry /\ i \in live /\ i \notin reqs[j].seen
       /\ reqs[j].key \in DOMAIN cache
\* C15: when two store queries for one key overlap and both have completed,
\* with no clear since, the entry under the key is the one stored by the
\* request whose query was issued last: it bears the time that request
\* completed, not the time of an earlier-issued query that completed later.
C15_LatestIssuedWins ==
    \A i \in Cached, j \in Cached :
       /\ i < j /\ reqs[i].key = reqs[j].key
       /\ reqs[i].queries = 1 /\ reqs[j].queries = 1
       /\ i \in live /\ j \in live /\ i \notin reqs[j].seen
       => cache[reqs[j].key].timestamp = reqs[j].doneAt
\* C17: the page never keeps the body of an error response (404 or 500, a
\* body with the field error) as its performance result; a performance
\* request that ends in an error leaves performance as it was and sets the
\* error message.
C17_ErrorNotStored ==
    mounted /\ view.performance # Null => "error" \notin DOMAIN view.performance

\* The last user event, when there is one.
LastClick == clicks[Len(clicks)]

\* All responses have arrived and the page shows the current values.
Settled == mounted /\ calls = << >> /\ view = shown

\* C18: when the last user event picked district d of state s from the search
\* results and every request has completed, selectedState is s,
\* selectedDistrict is d, and the performance shown, unless a request failed,
\* is d's.
C18_SearchSelectionKept ==
    clicks # << >> /\ LastClick.event = "search" /\ Settled
    => /\ view.selectedState = LastClick.state
       /\ view.selectedDistrict = LastClick.code
       /\ view.error = ""
          => /\ view.performance # Null
             /\ view.performance.district.district_code = LastClick.code
\* At most three codes, none twice.
CompareSetOk ==
    /\ Len(view.compareDistricts) <= 3
    /\ \A a \in 1..Len(view.compareDistricts), b \in 1..Len(view.compareDistricts) :
          view.compareDistricts[a] = view.compareDistricts[b] => a = b

\* The step handles a click on the add button.
AddClicked == clicks' # clicks /\ clicks'[Len(clicks')].event = "add"

\* C16 as stated: compareDistricts always holds at most three codes and none
\* twice, and an add handled when the set has three codes or holds the code
\* already, as a second click before the re-render does, leaves the set
\* unchanged and issues no request.
C16_CompareSetBoundedStated ==
    /\ []CompareSetOk
    /\ [][AddClicked /\ (\/ Len(view.compareDistricts) >= 3
                         \/ clicks'[Len(clicks')].code \in Elems(view.compareDistricts))
          => view'.compareDistricts = view.compareDistricts /\ calls' = calls]_vars

\* C16 amended: compareDistricts always holds at most three codes and none
\* twice; an add is handled only when the list of the last render has fewer
\* than three codes and not the code, and it sets the list to that rendered
\* list with the code appended and starts one fetch of that list, so a second
\* click before the re-render sets the same list again and issues a second
\* request.
C16_CompareSetBounded ==
    /\ []CompareSetOk
    /\ [][AddClicked
          => /\ Len(shown.compareDistricts) < 3
             /\ clicks'[Len(clicks')].code \notin Elems(shown.compareDistricts)
             /\ view'.compareDistricts =
                   Append(shown.compareDistricts, clicks'[Len(clicks')].code)
             /\ calls' = calls \o CompareCalls(view'.compareDistricts)]_vars

\* Two add clicks handled before a re-render, on a set of two codes.
C16_Witness ==
    /\ Len(clicks) >= 2
    /\ clicks[Len(clicks)].event = "add" /\ clicks[Len(clicks) - 1].event = "add"
    /\ Len(shown.compareDistricts) = 2 /\ Len(view.compareDistricts) = 3
    /\ Len(calls) = 2

\* C19: when no compare fetch is in flight and none has failed, compareData
\* holds one performance result per code of compareDistricts, in the same
\* order, also after an addition or removal made while an earlier fetch was
\* in flight.
C19_CompareDataFollows ==
    mounted /\ (\A c \in 1..Len(calls) : calls[c].fn # "fetchCompareData")
    => /\ Len(view.compareData) = Len(view.compareDistricts)
       /\ \A k \in 1..Len(view.compareData) :
             view.compareData[k].district.district_code = view.compareDistricts[k]
\* The calls of fetchAllDistricts in flight.
AllDistrictsCalls == {c \in 1..Len(calls) : calls[c].fn = "fetchAllDistricts"}

RECURSIVE TaggedLists(_, _)
\* The lists got for the first states of statesData, tagged and concatenated.
TaggedLists(got, statesData) ==
    IF got = << >> THEN << >>
    ELSE TaggedLists(SubSeq(got, 1, Len(got) - 1), statesData)
         \o Tagged(got[Len(got)], statesData[Len(got)])

\* C20: fetchAllDistricts asks for the district lists one state at a time in
\* the order of the states list; while it runs allDistricts is unpublished
\* and the collected list is the concatenation of the lists received, each
\* entry tagged with its state; allDistricts changes only when the response
\* for the last state arrives, to that concatenation; and a failed request
\* ends the call with no further request and allDistricts unchanged.
C20_AllDistrictsAtomic ==
    /\ [](\A c \in AllDistrictsCalls :
            /\ view.allDistricts = << >>
            /\ Len(calls[c].asked) = calls[c].k
            /\ \A j \in 1..calls[c].k :
                  calls[c].asked[j] = calls[c].statesData[j].state_code
            /\ calls[c].k > 0 => Len(calls[c].got) = calls[c].k - 1
            /\ calls[c].allDist = TaggedLists(calls[c].got, calls[c].statesData))
    /\ [][view'.allDistricts # view.allDistricts
          => \E c \in AllDistrictsCalls :
                /\ calls[c].k = Len(calls[c].statesData)
                /\ calls' = Remove(calls, c)
                /\ \E r \in DistrictsResponses(calls[c].statesData[calls[c].k].state_code) :
                      /\ r.status = 200
                      /\ view'.allDistricts =
                            TaggedLists(Append(calls[c].got, r.body.array),
                                        calls[c].statesData)]_vars
    /\ [][\A c \in AllDistrictsCalls :
            (\A d \in 1..Len(calls') : calls'[d].fn # "fetchAllDistricts")
            /\ calls[c].k < Len(calls[c].statesData)
            => view'.allDistricts = view.allDistricts]_vars

\* The list of both states is published, two districts of the first state
\* before the one of the second.
C20_Witness ==
    /\ AllDistrictsCalls = {}
    /\ Len(view.allDistricts) = 3
    /\ view.allDistricts[1].state_code = "S1"
    /\ view.allDistricts[3].state_code = "S2"
\* The requests whose store query failed.
Failed == {i \in 1..Len(reqs) : reqs[i].pc = "done" /\ reqs[i].status = 500}

\* C21: a states or districts request whose store query fails is answered
\* 500 with error and details, the step that answers it leaves the cache map
\* as it was, and a request for the same key that arrives after the failure
\* is answered from the cache only if a still valid entry was under the key,
\* and queries the store otherwise.
C21_FailureNotCached ==
    /\ [](\A i \in Failed :
            /\ DOMAIN reqs[i].body = {"error", "details"}
            /\ reqs[i].queries = 1 /\ ~reqs[i].hit
            /\ \A j \in 1..Len(reqs) :
                  j > i /\ reqs[j].key = reqs[i].key
                  => IF reqs[j].hit
                     THEN /\ reqs[j].entryTs # NoEntry
                          /\ reqs[j].lookupAt - reqs[j].entryTs < CACHE_TTL
                          /\ reqs[j].queries = 0
                     ELSE /\ reqs[j].queries = 1
                          /\ \/ reqs[j].entryTs = NoEntry
                             \/ reqs[j].lookupAt - reqs[j].entryTs >= CACHE_TTL)
    /\ [][\A i \in 1..Len(reqs) :
            reqs[i].pc = "fetch" /\ reqs'[i].status = 500 => cache' = cache]_vars

\* A request failed while an entry written by an earlier request was under
\* its key, and the entry is still there as that request wrote it.
C21_Witness ==
    \E i \in Failed : \E j \in 1..Len(reqs) :
       /\ reqs[i].key \in DOMAIN cache
       /\ reqs[j].key = reqs[i].key /\ reqs[j].status = 200 /\ ~reqs[j].hit
       /\ reqs[j].doneAt < reqs[i].lookupAt
       /\ cache[reqs[i].key] = [data |-> reqs[j].body, timestamp |-> reqs[j].doneAt]
\* The calls of fn in flight.
InFlight(fn) == {c \in 1..Len(calls) : calls[c].fn = fn}

\* C22: once every performance request has completed and the page has
\* rendered, a performance result stored for a selected district is the
\* result for that district, whatever the order of the responses to the
\* requests for two districts selected one after the other.
C22_PerformanceOfSelected ==
    /\ mounted /\ view = shown /\ InFlight("fetchPerformance") = {}
    /\ view.selectedDistrict # "" /\ view.performance # Null
    /\ "district" \in DOMAIN view.performance
    => view.performance.district.district_code = view.selectedDistrict

\* C23: loading is true in every state with a performance request in
\* flight, also after the first of two overlapping requests has completed.
C23_LoadingWhileInFlight ==
    mounted /\ InFlight("fetchPerformance") # {} => view.loading

\* C24: once every district-list request has completed without a failure
\* and the page has rendered, the districts offered for a selected state are
\* the list of that state, also when the state was changed while an earlier
\* request was in flight.
C24_DistrictsOfSelected ==
    /\ mounted /\ view = shown /\ InFlight("fetchDistricts") = {}
    /\ view.selectedState # "" /\ view.error = ""
    /\ IsArray(view.districts) /\ view.districts.array # << >>
    => view.districts \in {r.body : r \in DistrictsResponses(view.selectedState)}
=============================================================================
